---- MODULE Spec2Model ----
(***************************************************************************)
(* Model of src/script.py: the COI field extraction (extract_coi_data) and *)
(* the eligibility / pricing rules (check_eligibility).                    *)
(*                                                                         *)
(* Text is a sequence of one-character strings, so the regular expressions *)
(* of the source are modelled on characters.  Numbers produced by float()  *)
(* are kept as exact decimals [w, f]: w whole units and f thousandths.     *)
(***************************************************************************)
EXTENDS Integers, Sequences, FiniteSets, TLC

VARIABLES pc, cap, text, sample_data, extracted_data, now, results

vars == <<pc, cap, text, sample_data, extracted_data, now, results>>

(***************************************************************************)
(* Bounds of the model.                                                    *)
(***************************************************************************)
\* Largest number of text fragments concatenated into one document.
MaxFrags == 3
\* Instants per calendar day that datetime.now() can fall on (0 = midnight).
TicksPerDay == 2
\* Number of consecutive calendar days datetime.now() is drawn from.
NowDays == 2

(***************************************************************************)
(* Values.                                                                 *)
(***************************************************************************)
\* A float: w whole units and f thousandths (0..999).
Num(w, f) == [present |-> TRUE, w |-> w, f |-> f]
\* Python None in a numeric field.
NoneNum == [present |-> FALSE, w |-> 0, f |-> 0]
\* A str, as its characters.
Str(s) == [present |-> TRUE, s |-> s]
\* Python None in a string field.
NoneStr == [present |-> FALSE, s |-> <<>>]

Min(S) == CHOOSE x \in S : \A y \in S : x <= y

(***************************************************************************)
(* Characters and the pieces of the re module the source uses.             *)
(***************************************************************************)
DigitChars == <<"0", "1", "2", "3", "4", "5", "6", "7", "8", "9">>
Digits == {DigitChars[k] : k \in 1..10}
DigitOrComma == Digits \cup {","}
DigitVal(c) == (CHOOSE k \in 1..10 : DigitChars[k] = c) - 1

UpperOf ==
  [a |-> "A", b |-> "B", c |-> "C", d |-> "D", e |-> "E", f |-> "F", g |-> "G",
   h |-> "H", i |-> "I", j |-> "J", k |-> "K", l |-> "L", m |-> "M", n |-> "N",
   o |-> "O", p |-> "P", q |-> "Q", r |-> "R", s |-> "S", t |-> "T", u |-> "U",
   v |-> "V", w |-> "W", x |-> "X", y |-> "Y", z |-> "Z"]
ToUpper(c) == IF c \in DOMAIN UpperOf THEN UpperOf[c] ELSE c
\* Character equality, under re.IGNORECASE when ic.
EqChar(a, b, ic) == IF ic THEN ToUpper(a) = ToUpper(b) ELSE a = b

\* The literal lit occurs in T at position i.
LitAt(T, i, lit, ic) ==
  /\ i >= 1
  /\ i + Len(lit) - 1 <= Len(T)
  /\ \A k \in 1..Len(lit) : EqChar(T[i + k - 1], lit[k], ic)

\* "." without re.DOTALL matches anything but a newline: ".*?" can span T[a..b].
NoNewline(T, a, b) == \A k \in a..b : T[k] # "\n"
Spans(T, a, b, dotall) == dotall \/ NoNewline(T, a, b)

\* Greedy run: the last index e >= i-1 with T[i..e] all in S.
RECURSIVE RunEnd(_, _, _)
RunEnd(T, i, S) == IF i <= Len(T) /\ T[i] \in S THEN RunEnd(T, i + 1, S) ELSE i - 1

\* \$[\d,]+ can start at i.
AmountStartsAt(T, i) == i < Len(T) /\ T[i] = "$" /\ T[i + 1] \in DigitOrComma
\* Last index of the greedy match of \$[\d,]+ (dec = FALSE) or of
\* \$[\d,]+\.?\d* (dec = TRUE) starting at i.
AmountEnd(T, i, dec) ==
  LET e1 == RunEnd(T, i + 1, DigitOrComma)
      e2 == IF e1 + 1 <= Len(T) /\ T[e1 + 1] = "." THEN e1 + 1 ELSE e1
  IN  IF dec THEN RunEnd(T, e2 + 1, Digits) ELSE e1

DigitsAt(T, i, n) == i + n - 1 <= Len(T) /\ \A k \in i..(i + n - 1) : T[k] \in Digits
CharAt(T, i, c) == i <= Len(T) /\ T[i] = c
\* Greedy \d{1,2} followed by "/": the number of digits taken at i, or 0.
DayOrMonthLen(T, i) ==
  IF DigitsAt(T, i, 2) /\ CharAt(T, i + 2, "/") THEN 2
  ELSE IF DigitsAt(T, i, 1) /\ CharAt(T, i + 1, "/") THEN 1 ELSE 0
\* Length of the match of \d{1,2}/\d{1,2}/\d{4} at i, or 0 when there is none.
DateLenAt(T, i) ==
  LET a == DayOrMonthLen(T, i)
      b == IF a = 0 THEN 0 ELSE DayOrMonthLen(T, i + a + 1)
  IN  IF a > 0 /\ b > 0 /\ DigitsAt(T, i + a + b + 2, 4) THEN a + b + 6 ELSE 0

\* No match of re.search.
NoMatch == <<>>

\* re.search(lit + r'.*?(\$[\d,]+)') resp. (\$[\d,]+\.?\d*): group(1), or NoMatch.
SearchLitAmount(T, lit, ic, dotall, dec) ==
  LET Amounts(i) == {j \in (i + Len(lit))..Len(T) :
                       AmountStartsAt(T, j) /\ Spans(T, i + Len(lit), j - 1, dotall)}
      starts == {i \in 1..Len(T) : LitAt(T, i, lit, ic) /\ Amounts(i) # {}}
  IN  IF starts = {} THEN NoMatch
      ELSE LET j == Min(Amounts(Min(starts)))
           IN  SubSeq(T, j, AmountEnd(T, j, dec))

\* re.search(r'(\$[\d,]+\.?\d*).*?' + lit): group(1), or NoMatch.
SearchAmountLit(T, lit, ic, dotall) ==
  LET After(i) == {k \in (AmountEnd(T, i, TRUE) + 1)..Len(T) :
                     LitAt(T, k, lit, ic)
                     /\ Spans(T, AmountEnd(T, i, TRUE) + 1, k - 1, dotall)}
      starts == {i \in 1..Len(T) : AmountStartsAt(T, i) /\ After(i) # {}}
  IN  IF starts = {} THEN NoMatch
      ELSE SubSeq(T, Min(starts), AmountEnd(T, Min(starts), TRUE))

\* re.search of a literal: group(0), or NoMatch.
SearchLit(T, lit, ic) ==
  IF \E i \in 1..Len(T) : LitAt(T, i, lit, ic) THEN lit ELSE NoMatch

\* re.search(lit + r'.*?(\d{1,2}/\d{1,2}/\d{4})'): group(1), or NoMatch.
SearchLitDate(T, lit, ic, dotall) ==
  LET Dates(i) == {j \in (i + Len(lit))..Len(T) :
                     DateLenAt(T, j) > 0 /\ Spans(T, i + Len(lit), j - 1, dotall)}
      starts == {i \in 1..Len(T) : LitAt(T, i, lit, ic) /\ Dates(i) # {}}
  IN  IF starts = {} THEN NoMatch
      ELSE LET j == Min(Dates(Min(starts)))
           IN  SubSeq(T, j, j + DateLenAt(T, j) - 1)

\* re.search(r'(\d{1,2}/\d{1,2}/\d{4}).*?' + lit): group(1), or NoMatch.
SearchDateLit(T, lit, ic, dotall) ==
  LET After(i) == {k \in (i + DateLenAt(T, i))..Len(T) :
                     LitAt(T, k, lit, ic)
                     /\ Spans(T, i + DateLenAt(T, i), k - 1, dotall)}
      starts == {i \in 1..Len(T) : DateLenAt(T, i) > 0 /\ After(i) # {}}
  IN  IF starts = {} THEN NoMatch
      ELSE SubSeq(T, Min(starts), Min(starts) + DateLenAt(T, Min(starts)) - 1)

\* re.search(r'(\d{1,2}/\d{1,2}/\d{4})'): group(1), or NoMatch.
SearchDate(T) ==
  LET starts == {i \in 1..Len(T) : DateLenAt(T, i) > 0}
  IN  IF starts = {} THEN NoMatch
      ELSE SubSeq(T, Min(starts), Min(starts) + DateLenAt(T, Min(starts)) - 1)

\* re.findall(r'(\$[\d,]+\.?\d*)', T[i..]): the non-overlapping matches, in order.
RECURSIVE FindAllAmounts(_, _)
FindAllAmounts(T, i) ==
  IF i > Len(T) THEN <<>>
  ELSE IF AmountStartsAt(T, i)
       THEN <<SubSeq(T, i, AmountEnd(T, i, TRUE))>>
              \o FindAllAmounts(T, AmountEnd(T, i, TRUE) + 1)
       ELSE FindAllAmounts(T, i + 1)

(***************************************************************************)
(* .replace('$', '').replace(',', '') and float().                         *)
(***************************************************************************)
StripCurrency(s) == SelectSeq(s, LAMBDA c : c # "$" /\ c # ",")

RECURSIVE DigitsToInt(_)
DigitsToInt(s) ==
  IF s = <<>> THEN 0
  ELSE 10 * DigitsToInt(SubSeq(s, 1, Len(s) - 1)) + DigitVal(s[Len(s)])

\* Index of the first "." of s, or Len(s) + 1.
DotIndex(s) == Min({k \in 1..Len(s) : s[k] = "."} \cup {Len(s) + 1})
WholeDigits(s) == SubSeq(s, 1, DotIndex(s) - 1)
FracDigits(s) == SubSeq(s, DotIndex(s) + 1, Len(s))

\* float(s) succeeds: digits with at most one ".", and at least one digit
\* (float('') and float('.') raise ValueError).
FloatOk(s) ==
  /\ \A k \in 1..Len(WholeDigits(s)) : WholeDigits(s)[k] \in Digits
  /\ \A k \in 1..Len(FracDigits(s)) : FracDigits(s)[k] \in Digits
  /\ Len(WholeDigits(s)) + Len(FracDigits(s)) >= 1

\* float(s), to the thousandth.
Float(s) ==
  LET fr == FracDigits(s) \o <<"0", "0", "0">>
  IN  Num(DigitsToInt(WholeDigits(s)), DigitsToInt(SubSeq(fr, 1, 3)))

\* a <= b and a > b on floats.
NumLe(a, b) == a.w < b.w \/ (a.w = b.w /\ a.f <= b.f)
NumGt(a, b) == ~NumLe(a, b)

(***************************************************************************)
(* extract_coi_data.                                                       *)
(***************************************************************************)
GA_LABEL == <<"G","E","N","E","R","A","L"," ","A","G","G","R","E","G","A","T","E">>
EXP == <<"E","X","P">>
LITERAL_DATE == <<"0","1","/","0","1","/","2","0","2","6">>
TOTAL_ANNUAL_PREMIUM ==
  <<"T","O","T","A","L"," ","A","N","N","U","A","L"," ","P","R","E","M","I","U","M">>
PREMIUM == <<"P","R","E","M","I","U","M">>
ANNUAL == <<"A","N","N","U","A","L">>
LITERAL_PREMIUM == <<"$","3",",","5","0","0">>
DEFAULT_DATE == <<"0","8","/","0","8","/","2","0","2","6">>

\* The dict the function starts from and returns.
default_sample_data ==
  [general_aggregate |-> Num(2, 0),
   expiration_date |-> Str(DEFAULT_DATE),
   premium |-> Num(3, 0),
   extraction_success |-> TRUE]

\* Variant of ga_search: the search without re.DOTALL.
ga_search_no_dotall(T) == SearchLitAmount(T, GA_LABEL, TRUE, FALSE, FALSE)

\* re.search(ga_pattern, text, re.IGNORECASE | re.DOTALL)
ga_search(T) == SearchLitAmount(T, GA_LABEL, TRUE, TRUE, FALSE)

\* re.search(pattern, text) for the k-th entry of exp_patterns.
exp_search(T, k) ==
  CASE k = 1 -> SearchLitDate(T, EXP, FALSE, FALSE)
    [] k = 2 -> SearchDateLit(T, EXP, FALSE, FALSE)
    [] k = 3 -> SearchLit(T, LITERAL_DATE, FALSE)
    [] k = 4 -> SearchDate(T)

\* Variant of exp_cascade: the generic date pattern ahead of the literal date.
exp_cascade_generic_first(T, k) ==
  IF exp_search(T, 1) # NoMatch THEN exp_search(T, 1)
  ELSE IF exp_search(T, 2) # NoMatch THEN exp_search(T, 2)
  ELSE IF exp_search(T, 4) # NoMatch THEN exp_search(T, 4)
  ELSE exp_search(T, 3)

\* The for loop over exp_patterns from entry k on: the first match, or NoMatch.
RECURSIVE exp_cascade(_, _)
exp_cascade(T, k) ==
  IF k > 4 THEN NoMatch
  ELSE IF exp_search(T, k) # NoMatch THEN exp_search(T, k)
       ELSE exp_cascade(T, k + 1)

\* re.search(pattern, text, re.IGNORECASE) for the k-th entry of premium_patterns.
premium_search(T, k) ==
  CASE k = 1 -> SearchLitAmount(T, TOTAL_ANNUAL_PREMIUM, TRUE, FALSE, TRUE)
    [] k = 2 -> SearchLitAmount(T, PREMIUM, TRUE, FALSE, TRUE)
    [] k = 3 -> SearchAmountLit(T, ANNUAL, TRUE, FALSE)
    [] k = 4 -> SearchLit(T, LITERAL_PREMIUM, TRUE)

\* The for loop over premium_patterns from entry k on: the first match that
\* float() accepts (a match it rejects is skipped by "continue"), or NoneNum.
RECURSIVE premium_cascade(_, _)
premium_cascade(T, k) ==
  IF k > 4 THEN NoneNum
  ELSE IF premium_search(T, k) # NoMatch /\ FloatOk(StripCurrency(premium_search(T, k)))
       THEN Float(StripCurrency(premium_search(T, k)))
       ELSE premium_cascade(T, k + 1)

\* Variant of in_reasonable_range: the upper bound excluded.
in_reasonable_range_exclusive(v) ==
  NumLe(Num(1000, 0), v) /\ NumLe(v, Num(10000, 0)) /\ v # Num(10000, 0)

\* 1000 <= premium_float <= 10000
in_reasonable_range(v) == NumLe(Num(1000, 0), v) /\ NumLe(v, Num(10000, 0))

\* The fallback loop over re.findall's matches from the k-th on: the first one
\* that float() accepts and that lies in the range, or NoneNum.
RECURSIVE premium_sweep(_, _)
premium_sweep(ms, k) ==
  IF k > Len(ms) THEN NoneNum
  ELSE IF FloatOk(StripCurrency(ms[k])) /\ in_reasonable_range(Float(StripCurrency(ms[k])))
       THEN Float(StripCurrency(ms[k]))
       ELSE premium_sweep(ms, k + 1)

\* Outcomes of the file and of the PyPDF2 capability.
Caps == {"ok", "read_raises", "import_error", "pdf_raises"}

\* Variant of import_failed: the flag left as it was.
import_failed_silent(sd) == sd

\* except ImportError (lines 107-109).
import_failed(sd) == [sd EXCEPT !.extraction_success = FALSE]

\* except Exception (lines 111-113).
OuterExcept ==
  /\ sample_data' = [sample_data EXCEPT !.extraction_success = FALSE]
  /\ pc' = "returned"

\* uploaded_file.read() (line 20).
ReadFile ==
  /\ pc = "read"
  /\ IF cap = "read_raises" THEN OuterExcept
     ELSE pc' = "import" /\ UNCHANGED sample_data
  /\ UNCHANGED <<cap, text, extracted_data, now, results>>

\* import PyPDF2 (line 24); except ImportError (lines 107-109).
ImportPyPDF2 ==
  /\ pc = "import"
  /\ IF cap = "import_error"
     THEN sample_data' = import_failed(sample_data) /\ pc' = "returned"
     ELSE pc' = "pages" /\ UNCHANGED sample_data
  /\ UNCHANGED <<cap, text, extracted_data, now, results>>

\* PdfReader and page.extract_text() (lines 25-29).  Until here text holds what
\* extract_text() returns for the document's page; the loop appends "\n" to it.
ReadPages ==
  /\ pc = "pages"
  /\ IF cap = "pdf_raises" THEN OuterExcept /\ UNCHANGED text
     ELSE pc' = "ga" /\ text' = text \o <<"\n">> /\ UNCHANGED sample_data
  /\ UNCHANGED <<cap, extracted_data, now, results>>

\* Lines 37-45.  float(ga_value) is not guarded: its ValueError reaches the
\* outer except.
ExtractGeneralAggregate ==
  /\ pc = "ga"
  /\ LET ga_match == ga_search(text)
         ga_value == StripCurrency(ga_match)
     IN  IF ga_match = NoMatch THEN pc' = "exp" /\ UNCHANGED sample_data
         ELSE IF FloatOk(ga_value)
              THEN /\ sample_data' = [sample_data EXCEPT !.general_aggregate = Float(ga_value)]
                   /\ pc' = "exp"
              ELSE OuterExcept
  /\ UNCHANGED <<cap, text, extracted_data, now, results>>

\* Lines 47-66.
ExtractExpirationDate ==
  /\ pc = "exp"
  /\ LET exp_match == exp_cascade(text, 1)
     IN  IF exp_match # NoMatch
         THEN sample_data' = [sample_data EXCEPT !.expiration_date = Str(exp_match)]
         ELSE UNCHANGED sample_data
  /\ pc' = "premium"
  /\ UNCHANGED <<cap, text, extracted_data, now, results>>

\* Lines 68-105: the cascade, and the fallback sweep when it found nothing.
ExtractPremium ==
  /\ pc = "premium"
  /\ LET found == premium_cascade(text, 1)
         swept == premium_sweep(FindAllAmounts(text, 1), 1)
     IN  IF found.present
         THEN sample_data' = [sample_data EXCEPT !.premium = found]
         ELSE IF swept.present
              THEN sample_data' = [sample_data EXCEPT !.premium = swept]
              ELSE UNCHANGED sample_data
  /\ pc' = "returned"
  /\ UNCHANGED <<cap, text, extracted_data, now, results>>

NextExtract ==
  \/ ReadFile
  \/ ImportPyPDF2
  \/ ReadPages
  \/ ExtractGeneralAggregate
  \/ ExtractExpirationDate
  \/ ExtractPremium

(***************************************************************************)
(* datetime: strptime(s, '%m/%d/%Y'), ordinals and the difference in days. *)
(***************************************************************************)
SlashIndexes(s) == {k \in 1..Len(s) : s[k] = "/"}
Max(S) == CHOOSE x \in S : \A y \in S : x >= y
AllDigits(s) == \A k \in 1..Len(s) : s[k] \in Digits
MonthField(s) == SubSeq(s, 1, Min(SlashIndexes(s)) - 1)
DayField(s) == SubSeq(s, Min(SlashIndexes(s)) + 1, Max(SlashIndexes(s)) - 1)
YearField(s) == SubSeq(s, Max(SlashIndexes(s)) + 1, Len(s))

IsLeap(y) == y % 4 = 0 /\ (y % 100 # 0 \/ y % 400 = 0)
DaysInMonth(y, m) ==
  IF m = 2 THEN (IF IsLeap(y) THEN 29 ELSE 28)
  ELSE IF m \in {4, 6, 9, 11} THEN 30 ELSE 31
RECURSIVE DaysBeforeMonth(_, _)
DaysBeforeMonth(y, m) ==
  IF m = 1 THEN 0 ELSE DaysBeforeMonth(y, m - 1) + DaysInMonth(y, m - 1)
DaysBeforeYear(y) ==
  365 * (y - 1) + ((y - 1) \div 4) - ((y - 1) \div 100) + ((y - 1) \div 400)
\* date(y, m, d).toordinal()
Ordinal(y, m, d) == DaysBeforeYear(y) + DaysBeforeMonth(y, m) + d

\* strptime(s, '%m/%d/%Y') returns: the fields are 1-2, 1-2 and 4 digits, the
\* whole string is consumed, and the date exists.
strptime_ok(s) ==
  /\ Cardinality(SlashIndexes(s)) = 2
  /\ AllDigits(MonthField(s)) /\ Len(MonthField(s)) \in 1..2
  /\ AllDigits(DayField(s)) /\ Len(DayField(s)) \in 1..2
  /\ AllDigits(YearField(s)) /\ Len(YearField(s)) = 4
  /\ DigitsToInt(YearField(s)) >= 1
  /\ DigitsToInt(MonthField(s)) \in 1..12
  /\ DigitsToInt(DayField(s)) >= 1
  /\ DigitsToInt(DayField(s))
       <= DaysInMonth(DigitsToInt(YearField(s)), DigitsToInt(MonthField(s)))

\* The day strptime returns (at 00:00:00), as an ordinal.
strptime_day(s) ==
  Ordinal(DigitsToInt(YearField(s)), DigitsToInt(MonthField(s)), DigitsToInt(DayField(s)))

\* (exp_date - datetime.now()).days: timedelta.days is the floor of the
\* difference in days; the instant t is day t.day plus t.tick / TicksPerDay.
days_until(exp_day, t) == ((exp_day - t.day) * TicksPerDay - t.tick) \div TicksPerDay

(***************************************************************************)
(* check_eligibility.                                                      *)
(***************************************************************************)
NO_AGGREGATE == "Unable to determine General Aggregate limit"
EXCEEDS == "General Aggregate ${general_aggregate:,} exceeds our maximum limit of $2,000,000"
EXPIRES == "Policy expires in {days_until_expiry} days (minimum 30 days required)"
ELIGIBLE == "Eligible for quote - we can match your coverage and save you money!"

\* An f-string: its text and the values formatted into it.
Reason(t, a) == [text |-> t, args |-> a]

\* Lines 121-127.  Prices are in cents.
initial_results ==
  [eligible |-> FALSE, reason |-> Reason("", <<>>), our_price |-> 0,
   savings |-> 0, savings_percent |-> 0]

\* Variant of exceeds_maximum: >= in place of >.
exceeds_maximum_ge(ga) == NumLe(Num(2000000, 0), ga)

\* general_aggregate > 2000000
exceeds_maximum(ga) == NumGt(ga, Num(2000000, 0))

\* Variant of rejected: the discount rate filled in before the gates.
rejected_with_rate(res, why) == [res EXCEPT !.reason = why, !.savings_percent = 10]

\* results['reason'] = ...; return results
rejected(res, why) == [res EXCEPT !.reason = why]

\* Lines 141-150: the expiry gate rejects.  A falsy date skips the gate, and so
\* does a date strptime raises on (the exception is caught).
expiry_blocks(expiration_date, t) ==
  /\ expiration_date.present
  /\ expiration_date.s # <<>>
  /\ strptime_ok(expiration_date.s)
  /\ days_until(strptime_day(expiration_date.s), t) < 30

\* Variant of current_premium: the fallback taken from the extraction default.
current_premium_low_fallback(premium) == IF premium.present THEN premium ELSE Num(3, 0)

\* Lines 154-156.
current_premium(premium) == IF premium.present THEN premium ELSE Num(3500, 0)

\* A float in thousandths.
Thousandths(v) == v.w * 1000 + v.f

\* round(x, 2) of x given in ten-thousandths, in cents.  The value the source
\* rounds is a binary float next to the decimal x: when x lies exactly between two
\* cents, the float lies on either side of it, and up says on which.
Round2(x, up) ==
  LET c == x \div 100
      r == x % 100
  IN  IF r > 50 \/ (r = 50 /\ up) THEN c + 1 ELSE c

\* our_price = current_premium * 0.9, in ten-thousandths.
our_price_raw(p) == 9 * Thousandths(p)
\* savings = current_premium - our_price, in ten-thousandths.
savings_raw(p) == 10 * Thousandths(p) - our_price_raw(p)

\* Line 121.
EnterCheck ==
  /\ pc = "check"
  /\ results' = initial_results
  /\ pc' = "aggregate"
  /\ UNCHANGED <<cap, text, sample_data, extracted_data, now>>

\* Lines 129-137.
AggregateGate ==
  /\ pc = "aggregate"
  /\ LET general_aggregate == extracted_data.general_aggregate
     IN  IF ~general_aggregate.present
         THEN results' = rejected(results, Reason(NO_AGGREGATE, <<>>)) /\ pc' = "decided"
         ELSE IF exceeds_maximum(general_aggregate)
              THEN /\ results' = rejected(results,
                          Reason(EXCEEDS, <<general_aggregate.w, general_aggregate.f>>))
                   /\ pc' = "decided"
              ELSE pc' = "expiry" /\ UNCHANGED results
  /\ UNCHANGED <<cap, text, sample_data, extracted_data, now>>

\* Lines 139-151.
ExpiryGate ==
  /\ pc = "expiry"
  /\ LET expiration_date == extracted_data.expiration_date
     IN  IF expiry_blocks(expiration_date, now)
         THEN /\ results' = rejected(results,
                     Reason(EXPIRES, <<days_until(strptime_day(expiration_date.s), now)>>))
              /\ pc' = "decided"
         ELSE pc' = "pricing" /\ UNCHANGED results
  /\ UNCHANGED <<cap, text, sample_data, extracted_data, now>>

\* Lines 153-170.
Pricing ==
  /\ pc = "pricing"
  /\ \E up1 \in BOOLEAN, up2 \in BOOLEAN :
       LET p == current_premium(extracted_data.premium)
       IN  results' = [eligible |-> TRUE,
                       our_price |-> Round2(our_price_raw(p), up1),
                       savings |-> Round2(savings_raw(p), up2),
                       savings_percent |-> 10,
                       reason |-> Reason(ELIGIBLE, <<>>)]
  /\ pc' = "decided"
  /\ UNCHANGED <<cap, text, sample_data, extracted_data, now>>

NextCheck ==
  \/ EnterCheck
  \/ AggregateGate
  \/ ExpiryGate
  \/ Pricing

(***************************************************************************)
(* Inputs of check_eligibility.                                            *)
(***************************************************************************)
\* The first calendar day datetime.now() is drawn from: 01/30/2028, so that the
\* days 29 to 31 days ahead run over 02/29/2028.
BaseDay == Ordinal(2028, 1, 30)
NowOrdinals == BaseDay..(BaseDay + NowDays - 1)
Instants == {[day |-> d, tick |-> k] : d \in NowOrdinals, k \in 0..(TicksPerDay - 1)}

TwoDigits(n) == <<DigitChars[(n \div 10) + 1], DigitChars[(n % 10) + 1]>>
\* The date with ordinal o, written mm/dd/yyyy.
FormatDate(o) ==
  LET y == CHOOSE yy \in 2027..2029 : DaysBeforeYear(yy) < o /\ o <= DaysBeforeYear(yy + 1)
      m == CHOOSE mm \in 1..12 :
             /\ DaysBeforeMonth(y, mm) < o - DaysBeforeYear(y)
             /\ o - DaysBeforeYear(y) <= DaysBeforeMonth(y, mm) + DaysInMonth(y, mm)
      d == o - DaysBeforeYear(y) - DaysBeforeMonth(y, m)
  IN  TwoDigits(m) \o <<"/">> \o TwoDigits(d) \o <<"/">>
        \o TwoDigits(y \div 100) \o TwoDigits(y % 100)

\* Days from now's day to the expiration day that the inputs cover.
DayOffsets == {-1, 0, 1, 29, 30, 31}
\* Strings strptime raises on: "N/A", "02/30/2028", "13/01/2028", "3/5/28".
BadDates ==
  {<<"N","/","A">>,
   <<"0","2","/","3","0","/","2","0","2","8">>,
   <<"1","3","/","0","1","/","2","0","2","8">>,
   <<"3","/","5","/","2","8">>}
ExpirationDates ==
  {NoneStr, Str(<<>>)}
    \cup {Str(s) : s \in BadDates}
    \cup {Str(FormatDate(d + k)) : d \in NowOrdinals, k \in DayOffsets}
    \cup {Str(<<"3","/","5","/","2","0","2","8">>)}
Aggregates ==
  {NoneNum, Num(2, 0), Num(1999999, 999), Num(2000000, 0), Num(2000000, 1),
   Num(2000001, 0), Num(2500000, 0)}
Premiums == {NoneNum, Num(0, 0), Num(3, 0), Num(3500, 0), Num(3500, 50), Num(1, 16)}

CheckIdle ==
  /\ cap = "ok"
  /\ text = <<>>
  /\ sample_data = default_sample_data
  /\ results = initial_results

InitCheck ==
  /\ pc = "check"
  /\ extracted_data \in [general_aggregate : Aggregates,
                         expiration_date : ExpirationDates,
                         premium : Premiums,
                         extraction_success : BOOLEAN]
  /\ now \in Instants
  /\ CheckIdle

SpecCheck == InitCheck /\ [][NextCheck]_vars

(***************************************************************************)
(* Documents: concatenations of at most MaxFrags fragments.                *)
(***************************************************************************)
RECURSIVE Concats(_, _)
Concats(F, n) ==
  IF n = 0 THEN {<<>>}
  ELSE Concats(F, n - 1) \cup {t \o f : t \in Concats(F, n - 1), f \in F}

\* Fragments around the general aggregate: "GENERAL AGGREGATE $1,000,000 ",
\* "General Aggregate ", "$2,500,000", "$1,000,000 ", "$, ", "0 ", a newline,
\* " EXP 12/31/2099" and " PREMIUM $4,000".
GAFragments ==
  {<<"G","E","N","E","R","A","L"," ","A","G","G","R","E","G","A","T","E"," ",
     "$","1",",","0","0","0",",","0","0","0"," ">>,
   <<"G","e","n","e","r","a","l"," ","A","g","g","r","e","g","a","t","e"," ">>,
   <<"$","2",",","5","0","0",",","0","0","0">>,
   <<"$","1",",","0","0","0",",","0","0","0"," ">>,
   <<"$",","," ">>,
   <<"0"," ">>,
   <<"\n">>,
   <<" ","E","X","P"," ","1","2","/","3","1","/","2","0","9","9">>,
   <<" ","P","R","E","M","I","U","M"," ","$","4",",","0","0","0">>}

ExtractIdle ==
  /\ extracted_data = default_sample_data
  /\ now = [day |-> BaseDay, tick |-> 0]
  /\ results = initial_results

InitGA ==
  /\ pc = "read"
  /\ cap \in Caps
  /\ text \in Concats(GAFragments, MaxFrags)
  /\ sample_data = default_sample_data
  /\ ExtractIdle

SpecGA == InitGA /\ [][NextExtract]_vars

\* Fragments around the expiration date: "EXP ", "Exp ", "01/01/2026",
\* "12/31/2099", "3/5/2027 ", "1", a space and a newline.
ExpFragments ==
  {<<"E","X","P"," ">>,
   <<"E","x","p"," ">>,
   <<"0","1","/","0","1","/","2","0","2","6">>,
   <<"1","2","/","3","1","/","2","0","9","9">>,
   <<"3","/","5","/","2","0","2","7"," ">>,
   <<"1">>,
   <<" ">>,
   <<"\n">>}

InitExp ==
  /\ pc = "read"
  /\ cap \in Caps
  /\ text \in Concats(ExpFragments, MaxFrags)
  /\ sample_data = default_sample_data
  /\ ExtractIdle

SpecExp == InitExp /\ [][NextExtract]_vars

\* Fragments around the premium: "TOTAL ANNUAL PREMIUM ", "Premium ", " ANNUAL",
\* "$3,500", "$4,000 ", "$10,000", ".5 ", "$999.99 ", "$1,000 ", "$, " and a newline.
PremiumFragments ==
  {<<"T","O","T","A","L"," ","A","N","N","U","A","L"," ","P","R","E","M","I","U","M"," ">>,
   <<"P","r","e","m","i","u","m"," ">>,
   <<" ","A","N","N","U","A","L">>,
   <<"$","3",",","5","0","0">>,
   <<"$","4",",","0","0","0"," ">>,
   <<"$","1","0",",","0","0","0">>,
   <<".","5"," ">>,
   <<"$","9","9","9",".","9","9"," ">>,
   <<"$","1",",","0","0","0"," ">>,
   <<"$",","," ">>,
   <<"\n">>}

InitPremium ==
  /\ pc = "read"
  /\ cap \in Caps
  /\ text \in Concats(PremiumFragments, MaxFrags)
  /\ sample_data = default_sample_data
  /\ ExtractIdle

SpecPremium == InitPremium /\ [][NextExtract]_vars

(***************************************************************************)
(* Inputs of the pricing step: every premium to the thousandth up to       *)
(* MaxPremiumUnits, and a few of the size of an annual premium.            *)
(***************************************************************************)
MaxPremiumUnits == 1
PricingPremiums ==
  {Num(w, f) : w \in 0..MaxPremiumUnits, f \in 0..999}
    \cup {NoneNum, Num(3500, 0), Num(3500, 50), Num(1234, 565)}

InitPricing ==
  /\ pc = "check"
  /\ extracted_data \in [general_aggregate : {Num(2000000, 0)},
                         expiration_date : {NoneStr, Str(FormatDate(BaseDay + 31))},
                         premium : PricingPremiums,
                         extraction_success : {TRUE}]
  /\ now \in Instants
  /\ CheckIdle

SpecPricing == InitPricing /\ [][NextCheck]_vars

(***************************************************************************)
(* main: an uploaded file goes through extract_coi_data and then           *)
(* check_eligibility; the demo button checks the built-in sample.          *)
(***************************************************************************)
\* Lines 267-272.
demo_sample_data ==
  [general_aggregate |-> Num(2000000, 0),
   expiration_date |-> Str(LITERAL_DATE),
   premium |-> Num(3500, 0),
   extraction_success |-> TRUE]

\* Lines 189-196.
UploadFile ==
  /\ pc = "main"
  /\ pc' = "read"
  /\ UNCHANGED <<cap, text, sample_data, extracted_data, now, results>>

\* Lines 266-284.
UseSampleData ==
  /\ pc = "main"
  /\ extracted_data' = demo_sample_data
  /\ pc' = "check"
  /\ UNCHANGED <<cap, text, sample_data, now, results>>

\* Lines 196 and 221.
CallCheck ==
  /\ pc = "returned"
  /\ extracted_data' = sample_data
  /\ pc' = "check"
  /\ UNCHANGED <<cap, text, sample_data, now, results>>

Init ==
  /\ pc = "main"
  /\ cap \in Caps
  /\ text \in Concats(GAFragments, MaxFrags)
  /\ sample_data = default_sample_data
  /\ extracted_data = default_sample_data
  /\ now \in Instants
  /\ results = initial_results

Next ==
  \/ UploadFile
  \/ UseSampleData
  \/ NextExtract
  \/ CallCheck
  \/ NextCheck

Spec == Init /\ [][Next]_vars

(***************************************************************************)
(* Properties of check_eligibility.                                        *)
(***************************************************************************)
\* The input passes the aggregate gate: present and at most 2,000,000.
AggregatePasses ==
  /\ extracted_data.general_aggregate.present
  /\ NumLe(extracted_data.general_aggregate, Num(2000000, 0))
\* The input's expiration date is a calendar date written month/day/year.
IsCalendarDate ==
  /\ extracted_data.expiration_date.present
  /\ extracted_data.expiration_date.s # <<>>
  /\ strptime_ok(extracted_data.expiration_date.s)
ExpiryDay == strptime_day(extracted_data.expiration_date.s)
\* The cents round(x, 2) can return for x in ten-thousandths.
Rounded(x) == {Round2(x, TRUE), Round2(x, FALSE)}

\* C1: with the aggregate gate passed and the current instant on calendar day D
\* (any time of day), an expiration date of D+29 is ineligible, one of D+30 is
\* eligible, and one of D-1 is ineligible.
C1_ExpiryBoundary ==
  (pc = "decided" /\ AggregatePasses /\ IsCalendarDate) =>
    /\ (ExpiryDay = now.day + 29 => ~results.eligible)
    /\ (ExpiryDay = now.day + 30 => results.eligible)
    /\ (ExpiryDay = now.day - 1 => ~results.eligible)

\* C2: an aggregate above 2,000,000 is ineligible, with a reason that carries the
\* actual value and the $2,000,000 maximum, whatever the date and the premium are;
\* an aggregate of exactly 2,000,000 is eligible whenever the expiry gate passes.
C2_AggregateGate ==
  pc = "decided" =>
    /\ (/\ extracted_data.general_aggregate.present
        /\ \/ extracted_data.general_aggregate.w > 2000000
           \/ /\ extracted_data.general_aggregate.w = 2000000
              /\ extracted_data.general_aggregate.f > 0)
         => /\ ~results.eligible
            /\ results.reason.text = EXCEEDS
            /\ results.reason.args = <<extracted_data.general_aggregate.w,
                                       extracted_data.general_aggregate.f>>
    /\ (/\ extracted_data.general_aggregate = Num(2000000, 0)
        /\ ~expiry_blocks(extracted_data.expiration_date, now))
         => results.eligible

\* An aggregate of exactly 2,000,000 was decided eligible after the expiry gate
\* parsed the date and let it pass.
C2_Witness ==
  /\ pc = "decided"
  /\ extracted_data.general_aggregate = Num(2000000, 0)
  /\ IsCalendarDate
  /\ results.eligible

\* C3: for every premium, an eligible decision has our_price = round(premium *
\* 0.9, 2), savings = round(premium - our_price, 2) with the returned, rounded
\* our_price, and savings_percent = 10.0.  Stated for the premiums that are not
\* at an exact half cent, where the roundings of the source do not depend on
\* the binary float.
C3_Pricing ==
  (/\ pc = "decided"
   /\ results.eligible
   /\ extracted_data.premium.present
   /\ Thousandths(extracted_data.premium) % 100 # 50) =>
    /\ results.our_price \in Rounded(9 * Thousandths(extracted_data.premium))
    /\ results.savings
         \in Rounded(10 * Thousandths(extracted_data.premium) - 100 * results.our_price)
    /\ results.savings_percent = 10

\* C7: a decision with eligible = false has our_price, savings and
\* savings_percent equal to 0 and a non-empty reason; the price fields are
\* non-default only in eligible decisions.
C7_PriceOnlyWhenEligible ==
  pc = "decided" =>
    /\ ~results.eligible =>
         /\ results.our_price = 0
         /\ results.savings = 0
         /\ results.savings_percent = 0
         /\ results.reason.text # ""
    /\ (results.our_price # 0 \/ results.savings # 0 \/ results.savings_percent # 0)
         => results.eligible

\* A decision rejected by the expiry gate, for an input with a premium to price.
C7_Witness ==
  /\ pc = "decided"
  /\ ~results.eligible
  /\ results.reason.text = EXPIRES
  /\ extracted_data.premium = Num(3500, 0)

\* The input's expiration date is None, empty, or one of the strings that are
\* no month/day/4-digit-year calendar date.
DateAbsentOrUnparseable ==
  \/ ~extracted_data.expiration_date.present
  \/ extracted_data.expiration_date.s = <<>>
  \/ extracted_data.expiration_date.s \in BadDates
\* The premium the price is computed from, in thousandths.
PricedPremium ==
  IF extracted_data.premium.present THEN Thousandths(extracted_data.premium) ELSE 3500000

\* C10: with the aggregate present and at most 2,000,000 and the expiration date
\* empty, absent or not parseable, the expiry gate is skipped: the decision is
\* eligible, priced from the premium, or from 3500.0 when the premium is None.
C10_LenientExpiry ==
  (pc = "decided" /\ AggregatePasses /\ DateAbsentOrUnparseable) =>
    /\ results.eligible
    /\ results.our_price \in Rounded(9 * PricedPremium)
    /\ results.savings \in Rounded(PricedPremium)
    /\ results.savings_percent = 10

\* An unparseable date and a None premium were decided eligible at 3150.00.
C10_Witness ==
  /\ pc = "decided"
  /\ AggregatePasses
  /\ extracted_data.expiration_date.present
  /\ extracted_data.expiration_date.s \in BadDates
  /\ ~extracted_data.premium.present
  /\ results.eligible
  /\ results.our_price = 315000
  /\ results.savings = 35000

(***************************************************************************)
(* Properties of extract_coi_data.                                         *)
(***************************************************************************)
Returned == pc = "returned"
\* The capability produced the text and the field extraction ran over it.
Extracted == pc = "returned" /\ cap = "ok"
\* The expiration date and the premium the text yields on its own.
ExpectedExpiration ==
  IF exp_cascade(text, 1) # NoMatch THEN Str(exp_cascade(text, 1))
  ELSE default_sample_data.expiration_date
ExpectedPremium ==
  IF premium_cascade(text, 1).present THEN premium_cascade(text, 1)
  ELSE IF premium_sweep(FindAllAmounts(text, 1), 1).present
       THEN premium_sweep(FindAllAmounts(text, 1), 1)
       ELSE default_sample_data.premium
\* The general-aggregate pattern matched text float() rejects.
AggregateMatchUnparseable ==
  /\ ga_search(text) # NoMatch
  /\ ~FloatOk(StripCurrency(ga_search(text)))
\* A premium pattern matched text float() rejects.
PremiumMatchUnparseable ==
  \E k \in 1..4 : /\ premium_search(text, k) # NoMatch
                  /\ ~FloatOk(StripCurrency(premium_search(text, k)))

\* C4: when the pattern of a numeric field matches text that is no number, only
\* that field keeps its default: the other fields are still extracted from the
\* text, and the call returns a fully populated result.
C4_FieldParseIsolation ==
  Extracted =>
    /\ AggregateMatchUnparseable =>
         /\ sample_data.general_aggregate = default_sample_data.general_aggregate
         /\ sample_data.expiration_date = ExpectedExpiration
         /\ sample_data.premium = ExpectedPremium
    /\ (PremiumMatchUnparseable /\ ~AggregateMatchUnparseable) =>
         /\ sample_data.expiration_date = ExpectedExpiration
         /\ (ga_search(text) # NoMatch
               => sample_data.general_aggregate = Float(StripCurrency(ga_search(text))))

\* C5: when the capability is unavailable or raises while the document is read
\* or converted, the call returns with extraction_success = false and the three
\* fields at their defaults.
C5_CapabilityFailure ==
  (Returned /\ cap # "ok") =>
    /\ ~sample_data.extraction_success
    /\ sample_data.general_aggregate = Num(2, 0)
    /\ sample_data.expiration_date = Str(DEFAULT_DATE)
    /\ sample_data.premium = Num(3, 0)

\* The call returned without PyPDF2 for a document that holds an aggregate.
C5_Witness ==
  /\ Returned
  /\ cap = "import_error"
  /\ ga_search(text) # NoMatch
  /\ ~sample_data.extraction_success

AMOUNT_2_5M == <<"$","2",",","5","0","0",",","0","0","0">>
\* The text holds "GENERAL AGGREGATE $2,500,000" in any letter case, the amount
\* not running on into a further digit or comma.
HoldsLabelAndAmount ==
  \E i \in 1..Len(text) :
    /\ LitAt(text, i, GA_LABEL \o <<" ">> \o AMOUNT_2_5M, TRUE)
    /\ ~(\E c \in DigitOrComma :
           CharAt(text, i + Len(GA_LABEL) + 1 + Len(AMOUNT_2_5M), c))
\* Start of the first occurrence of the label, in any letter case (past the end
\* of the text when there is none).
FirstLabel == Min({i \in 1..Len(text) : LitAt(text, i, GA_LABEL, TRUE)} \cup {Len(text) + 1})
\* Start of the first "$" followed by a digit or a comma after the first label.
FirstAmountAfterLabel ==
  Min({j \in (FirstLabel + Len(GA_LABEL))..Len(text) : AmountStartsAt(text, j)}
        \cup {Len(text) + 1})

\* C6 as stated: whatever precedes or follows it, a text that holds
\* "GENERAL AGGREGATE $2,500,000" in any letter case yields 2,500,000.0.
C6_AnyOccurrence ==
  (Extracted /\ HoldsLabelAndAmount) => sample_data.general_aggregate = Num(2500000, 0)

\* C6 amended: the aggregate is 2,500,000.0 when the first "$" followed by a
\* digit or comma after the first occurrence of the label (any letter case, line
\* breaks allowed in between) starts "$2,500,000" and no digit or comma follows.
C6_FirstAmountAfterFirstLabel ==
  (/\ Extracted
   /\ LitAt(text, FirstAmountAfterLabel, AMOUNT_2_5M, FALSE)
   /\ ~(\E c \in DigitOrComma : CharAt(text, FirstAmountAfterLabel + Len(AMOUNT_2_5M), c)))
    => sample_data.general_aggregate = Num(2500000, 0)

\* 2,500,000.0 was extracted from a label in mixed case with a line break
\* between the label and the amount.
C6_Witness ==
  /\ Extracted
  /\ sample_data.general_aggregate = Num(2500000, 0)
  /\ ~(\E i \in 1..Len(text) : LitAt(text, i, GA_LABEL, FALSE))
  /\ ~NoNewline(text, FirstLabel, FirstAmountAfterLabel)

ParsingStrategies ==
  {k \in 1..4 : /\ premium_search(text, k) # NoMatch
                /\ FloatOk(StripCurrency(premium_search(text, k)))}
\* The currency tokens of the text, and those that are a number v with
\* 1000 <= v <= 10000.
CurrencyTokens == FindAllAmounts(text, 1)
QualifyingTokens ==
  {k \in 1..Len(CurrencyTokens) :
     /\ FloatOk(StripCurrency(CurrencyTokens[k]))
     /\ Float(StripCurrency(CurrencyTokens[k])).w >= 1000
     /\ \/ Float(StripCurrency(CurrencyTokens[k])).w < 10000
        \/ Float(StripCurrency(CurrencyTokens[k])) = Num(10000, 0)}

====
